---- MODULE Spec2Model ----
\* Model of the transcription wrapper: the Format Prober and Format Converter
\* (transcribe/audio.py), the Transcription Driver and Batch Coordinator
\* (transcribe/transcriber.py) and the command line (transcribe/cli.py).
\* Spec has the library calls as top-level calls, SpecCli has main and
\* resolve_input_files.  External processes (which, ffprobe, ffmpeg,
\* whisper-cli) are nondeterministic inputs of the step that runs them.
EXTENDS Integers, Sequences, FiniteSets, TLC

VARIABLES
    pc,            \* position of the (single-threaded) program
    env,           \* which external binaries `which` resolves
    fs,            \* set of paths that exist on disk
    self,          \* the constructed Transcriber (Optional)
    exc,           \* exception that escaped the top-level call (Optional)
    ret,           \* value returned by the top-level call (Optional)
    calls,         \* log of external process invocations and unlinks
    audio_paths,   \* transcribe_batch argument
    output_dir,    \* transcribe_batch argument (Optional directory)
    output_format, \* transcribe / transcribe_batch argument
    idx,           \* number of loop iterations of transcribe_batch completed
    results,       \* transcribe_batch local list
    in_batch,      \* TRUE iff transcribe was entered from transcribe_batch
    audio_path,    \* transcribe argument
    given_output,  \* transcribe argument output_path as passed (Optional)
    output_path,   \* transcribe local after line 99
    probe,         \* outcome of the ffprobe run of this transcribe call (Optional)
    compatible,    \* value returned by is_whisper_compatible (Optional)
    temp_wav,      \* transcribe local (Optional path)
    wav_path,      \* transcribe local (Optional path)
    converts,      \* calls of convert_to_whisper_format in this transcribe call
    engine,        \* outcome of the whisper-cli run of this transcribe call (Optional)
    pending,       \* what the try block of transcribe is about to return
    tmp_n,         \* number of temporary files mkstemp has allocated
    api,           \* the top-level call in progress and its arguments (Optional)
    dirs,          \* set of paths that exist on disk as directories
    input_files,   \* main local: the list resolve_input_files returned
    warnings,      \* paths resolve_input_files has printed a warning for
    main_output_dir,  \* main local output_dir (Optional path)
    main_output_file, \* main local output_file (Optional path)
    exit_code      \* value returned by main (Optional)

vars == <<pc, env, fs, self, exc, ret, calls, audio_paths, output_dir,
          output_format, idx, results, in_batch, audio_path, given_output,
          output_path, probe, compatible, temp_wav, wav_path, converts,
          engine, pending, tmp_n, api, dirs, input_files, warnings,
          main_output_dir, main_output_file, exit_code>>

cliVars == <<dirs, input_files, warnings, main_output_dir, main_output_file,
             exit_code>>

-----------------------------------------------------------------------------
\* Bounds of the model

MaxFiles == 2

-----------------------------------------------------------------------------
\* Optional values (Python None / a value)

None == [none |-> TRUE]

Some(x) == [none |-> FALSE, v |-> x]

-----------------------------------------------------------------------------
\* config.py

WHISPER_BINARY == "whisper-cli"

MODEL_DIR == "~/.cache/whisper"

REQUIRED_SAMPLE_RATE == 16000

REQUIRED_CHANNELS == 1

-----------------------------------------------------------------------------
\* pathlib.Path: a parent directory and a file name, the name kept as the
\* sequence of its dot-separated components ("a.tar.gz" is <<"a","tar","gz">>).

Path(parent, name) == [parent |-> parent, name |-> name]

RECURSIVE JoinDots(_)
JoinDots(name) ==
    IF Len(name) = 0 THEN ""
    ELSE IF Len(name) = 1 THEN name[1]
    ELSE name[1] \o "." \o JoinDots(Tail(name))

\* str(path)
PathStr(p) ==
    IF p.parent = "." THEN JoinDots(p.name) ELSE p.parent \o "/" \o JoinDots(p.name)

\* variant: the new suffix is appended to the whole name
with_suffix_Appended(p, ext) == Path(p.parent, p.name \o <<ext>>)

\* Path.with_suffix(".ext"): the last component is the suffix when the name
\* has more than one component; it is replaced, or the new one appended.
with_suffix(p, ext) ==
    Path(p.parent,
         (IF Len(p.name) > 1 THEN SubSeq(p.name, 1, Len(p.name) - 1)
                             ELSE p.name) \o <<ext>>)

\* Path.with_suffix(""): the suffix, if any, is removed.
strip_suffix(p) ==
    Path(p.parent,
         IF Len(p.name) > 1 THEN SubSeq(p.name, 1, Len(p.name) - 1)
                            ELSE p.name)

\* directory / file name
JoinDir(dir, name) == Path(dir, name)

\* config.py lines 16-25
SUPPORTED_AUDIO_EXTENSIONS ==
    {".wav", ".mp3", ".m4a", ".flac", ".ogg", ".aac", ".wma", ".opus"}

\* the characters of the extension spellings that occur in file names
Chars(s) ==
    CASE s = "wav" -> <<"w", "a", "v">>
      [] s = "Wav" -> <<"W", "a", "v">>
      [] s = "WAV" -> <<"W", "A", "V">>
      [] s = "mp3" -> <<"m", "p", "3">>
      [] s = "MP3" -> <<"M", "P", "3">>
      [] s = "m4a" -> <<"m", "4", "a">>
      [] s = "M4A" -> <<"M", "4", "A">>
      [] s = "flac" -> <<"f", "l", "a", "c">>
      [] s = "FLAC" -> <<"F", "L", "A", "C">>
      [] s = "ogg" -> <<"o", "g", "g">>
      [] s = "Ogg" -> <<"O", "g", "g">>
      [] s = "aac" -> <<"a", "a", "c">>
      [] s = "AAC" -> <<"A", "A", "C">>
      [] s = "wma" -> <<"w", "m", "a">>
      [] s = "WmA" -> <<"W", "m", "A">>
      [] s = "opus" -> <<"o", "p", "u", "s">>
      [] s = "OPUS" -> <<"O", "P", "U", "S">>
      [] s = "txt" -> <<"t", "x", "t">>
      [] s = "TXT" -> <<"T", "X", "T">>
      [] s = "xyz" -> <<"x", "y", "z">>
      [] s = "mp4" -> <<"m", "p", "4">>
      [] s = "x" -> <<"x">>

\* str.lower() on one character
LowerChar(c) ==
    CASE c = "A" -> "a" [] c = "C" -> "c" [] c = "F" -> "f" [] c = "G" -> "g"
      [] c = "L" -> "l" [] c = "M" -> "m" [] c = "O" -> "o" [] c = "P" -> "p"
      [] c = "S" -> "s" [] c = "T" -> "t" [] c = "U" -> "u" [] c = "V" -> "v"
      [] c = "W" -> "w" [] c = "X" -> "x"
      [] OTHER -> c

RECURSIVE JoinChars(_)
JoinChars(cs) == IF cs = <<>> THEN "" ELSE Head(cs) \o JoinChars(Tail(cs))

\* Path.suffix as characters: the dot and the last component, or nothing
suffix(p) ==
    IF Len(p.name) > 1 THEN <<".">> \o Chars(p.name[Len(p.name)]) ELSE <<>>

\* str.lower() on a sequence of characters
lower(cs) == [i \in 1..Len(cs) |-> LowerChar(cs[i])]

\* variant: the extension is compared as written
detect_format_CaseSensitive(file_path) ==
    LET ext == suffix(file_path)
    IN  IF JoinChars(ext) \in SUPPORTED_AUDIO_EXTENSIONS
        THEN Some(JoinChars(Tail(ext)))
        ELSE None

\* audio.py lines 22-35
detect_format(file_path) ==
    LET ext == lower(suffix(file_path))
    IN  IF JoinChars(ext) \in SUPPORTED_AUDIO_EXTENSIONS
        THEN Some(JoinChars(Tail(ext)))
        ELSE None

-----------------------------------------------------------------------------
\* JSON text printed by ffprobe, modelled by the value json.loads gives for it.
\* A JSON string is a sequence of symbols: decimal digits ("0".."9") and
\* opaque non-digit tokens ("pcm_s16le", "N/A").

JInvalid == [t |-> "invalid"]

JNull == [t |-> "null"]

JStr(s) == [t |-> "str", s |-> s]

JNum(n) == [t |-> "num", n |-> n]

JArr(a) == [t |-> "arr", a |-> a]

JObj(o) == [t |-> "obj", o |-> o]

\* the dict {}
EmptyDict == [k \in {} |-> JNull]

Digits == {"0", "1", "2", "3", "4", "5", "6", "7", "8", "9"}

DigitVal(c) ==
    CASE c = "0" -> 0 [] c = "1" -> 1 [] c = "2" -> 2 [] c = "3" -> 3
      [] c = "4" -> 4 [] c = "5" -> 5 [] c = "6" -> 6 [] c = "7" -> 7
      [] c = "8" -> 8 [] c = "9" -> 9

RECURSIVE DecimalValue(_)
DecimalValue(s) ==
    IF Len(s) = 0 THEN 0
    ELSE 10 * DecimalValue(SubSeq(s, 1, Len(s) - 1)) + DigitVal(s[Len(s)])

\* Python int(x) of a parsed JSON value: a number is itself, a string is
\* parsed as a decimal numeral or raises ValueError, anything else raises
\* TypeError.
PyInt(j) ==
    CASE j.t = "num" -> [exc |-> "None", n |-> j.n]
      [] j.t = "str" ->
           IF Len(j.s) > 0 /\ \A i \in 1..Len(j.s) : j.s[i] \in Digits
           THEN [exc |-> "None", n |-> DecimalValue(j.s)]
           ELSE [exc |-> "ValueError", n |-> 0]
      [] OTHER -> [exc |-> "TypeError", n |-> 0]

\* Python truth value of a parsed JSON value (`not streams`)
Truthy(j) ==
    CASE j.t = "null" -> FALSE
      [] j.t = "str" -> Len(j.s) > 0
      [] j.t = "num" -> j.n # 0
      [] j.t = "arr" -> Len(j.a) > 0
      [] j.t = "obj" -> DOMAIN j.o # {}

\* dict.get(key, default); raises AttributeError on a value that is no dict
HasGet(j) == j.t = "obj"

DictGet(j, key, default) == IF key \in DOMAIN j.o THEN j.o[key] ELSE default

\* outcome of a function: the value returned, or the exception raised
Returned(v) == [exc |-> "None", ret |-> v]

Raised(e) == [exc |-> e, ret |-> FALSE]

\* variant: the channel count is not compared
IsRequiredFormat_AnyChannels(codec, sample_rate, channels) ==
    /\ codec \in {JStr(<<"pcm_s16le">>), JStr(<<"pcm_s16be">>)}
    /\ sample_rate = REQUIRED_SAMPLE_RATE

\* audio.py lines 78-83: must be PCM, 16kHz, mono
IsRequiredFormat(codec, sample_rate, channels) ==
    LET is_pcm == codec \in {JStr(<<"pcm_s16le">>), JStr(<<"pcm_s16be">>)}
        is_16khz == sample_rate = REQUIRED_SAMPLE_RATE
        is_mono == channels = REQUIRED_CHANNELS
    IN  is_pcm /\ is_16khz /\ is_mono

\* audio.py lines 73-83: the decision on streams[0]
StreamDecision(audio_stream) ==
    IF ~HasGet(audio_stream) THEN Raised("AttributeError")
    ELSE LET codec == DictGet(audio_stream, "codec_name", JStr(<<>>))
             sample_rate == PyInt(DictGet(audio_stream, "sample_rate", JNum(0)))
             channels == PyInt(DictGet(audio_stream, "channels", JNum(0)))
         IN  IF sample_rate.exc # "None" THEN Raised(sample_rate.exc)
             ELSE IF channels.exc # "None" THEN Raised(channels.exc)
             ELSE Returned(IsRequiredFormat(codec, sample_rate.n, channels.n))

\* audio.py lines 68-83: the body of the try block
ProbeTryBody(stdout) ==
    IF stdout.t = "invalid" THEN Raised("JSONDecodeError")
    ELSE IF ~HasGet(stdout) THEN Raised("AttributeError")
    ELSE LET streams == DictGet(stdout, "streams", JArr(<<>>))
         IN  IF ~Truthy(streams) THEN Returned(FALSE)
             ELSE CASE streams.t = "arr" -> StreamDecision(streams.a[1])
                    [] streams.t = "obj" -> Raised("KeyError")
                    [] streams.t = "str" -> StreamDecision(JStr(<<streams.s[1]>>))
                    [] OTHER -> Raised("TypeError")

\* exceptions the except clause of is_whisper_compatible catches
ProbeCaught == {"JSONDecodeError", "KeyError", "ValueError"}

\* is_whisper_compatible, given what running ffprobe did: the process could
\* not be started (subprocess.run raises FileNotFoundError), or it exited
\* with a return code and a standard output.
is_whisper_compatible(p) ==
    IF p.kind = "oserror" THEN Raised("FileNotFoundError")
    ELSE IF p.rc # 0 THEN Returned(FALSE)
    ELSE LET r == ProbeTryBody(p.stdout)
         IN  IF r.exc \in ProbeCaught THEN Returned(FALSE) ELSE r


-----------------------------------------------------------------------------
\* Inputs: files, arguments and outcomes of the external processes

CustomModelPath == Path("models", <<"custom", "bin">>)

\* arguments of the Transcriber constructor: model, model_path, language
CtorArgs ==
    {[model |-> "medium", model_path |-> None, language |-> None],
     [model |-> "medium", model_path |-> None, language |-> Some("en")],
     [model |-> "large", model_path |-> Some(CustomModelPath), language |-> None],
     [model |-> "large", model_path |-> None, language |-> None]}

Formats == {"txt", "srt"}

\* Transcriber._default_model_path
_default_model_path(model) == Path(MODEL_DIR, <<"ggml-" \o model, "bin">>)

\* audio files on disk
AudioFiles ==
    {Path("in", <<"a", "mp3">>), Path("in", <<"a", "wav">>),
     Path("in2", <<"b", "x", "mp3">>)}

\* the directories of these files
BaseDirs == {Path(".", <<"in">>), Path(".", <<"in2">>)}

\* files a single transcribe call may be given: also one without extension
SingleFiles == AudioFiles \cup {Path("in", <<"memo">>)}

\* output_path arguments of a single transcribe call
OutputArgs ==
    {None, Some(Path("out", <<"t", "txt">>)), Some(Path("out", <<"t", "v1", "srt">>))}

\* output_dir arguments of transcribe_batch
OutputDirs == {None, Some("out")}

\* ordered lists of at most MaxFiles distinct audio files
AudioLists ==
    {l \in UNION {[1..n -> AudioFiles] : n \in 0..MaxFiles} :
        \A i, j \in 1..Len(l) : l[i] = l[j] => i = j}

\* streams ffprobe may report
StreamDicts ==
    {JObj([codec_type |-> JStr(<<"audio">>), codec_name |-> JStr(<<c>>),
           sample_rate |-> r, channels |-> ch]) :
        c \in {"pcm_s16le", "pcm_s16be", "mp3"},
        r \in {JStr(<<"1", "6", "0", "0", "0">>), JStr(<<"4", "4", "1", "0", "0">>),
               JStr(<<"N/A">>)},
        ch \in {JNum(1), JNum(2)}}
    \cup {JObj([codec_type |-> JStr(<<"audio">>), codec_name |-> JStr(<<"pcm_s16le">>),
                sample_rate |-> JStr(<<"1", "6", "0", "0", "0">>)]),
          JObj([codec_type |-> JStr(<<"audio">>), codec_name |-> JStr(<<"pcm_s16le">>),
                channels |-> JNum(1)]),
          JObj([codec_type |-> JStr(<<"audio">>),
                sample_rate |-> JStr(<<"1", "6", "0", "0", "0">>), channels |-> JNum(1)]),
          JObj([codec_type |-> JStr(<<"audio">>), codec_name |-> JStr(<<"pcm_s16le">>),
                sample_rate |-> JNull, channels |-> JNum(1)]),
          JObj([codec_type |-> JStr(<<"audio">>), codec_name |-> JStr(<<"pcm_s16le">>),
                sample_rate |-> JNum(16000), channels |-> JStr(<<"1">>)])}

VideoStream == JObj([codec_type |-> JStr(<<"video">>), codec_name |-> JStr(<<"h264">>)])

CompatibleStream ==
    JObj([codec_type |-> JStr(<<"audio">>), codec_name |-> JStr(<<"pcm_s16le">>),
          sample_rate |-> JStr(<<"1", "6", "0", "0", "0">>), channels |-> JNum(1)])

\* standard outputs of an ffprobe run that exited zero
ProbeStdouts ==
    {JInvalid, JArr(<<>>), JNull, JObj(EmptyDict),
     JObj([streams |-> JNull]), JObj([streams |-> JArr(<<>>)]),
     JObj([streams |-> JObj([index |-> JNum(0)])]),
     JObj([streams |-> JArr(<<JStr(<<"x">>)>>)]),
     JObj([streams |-> JNum(1)]),
     JObj([streams |-> JArr(<<VideoStream>>)]),
     JObj([streams |-> JArr(<<VideoStream, CompatibleStream>>)]),
     JObj([streams |-> JArr(<<CompatibleStream, VideoStream>>)])}
    \cup {JObj([streams |-> JArr(<<sd>>)]) : sd \in StreamDicts}

\* what running ffprobe can do (audio.py lines 50-62)
ProbeOutcomes ==
    {[kind |-> "oserror"], [kind |-> "exit", rc |-> 1, stdout |-> JInvalid]}
    \cup {[kind |-> "exit", rc |-> 0, stdout |-> j] : j \in ProbeStdouts}

\* what running ffmpeg can do (audio.py lines 110-126)
FfmpegOutcomes ==
    {[rc |-> 0, stderr |-> ""], [rc |-> 1, stderr |-> "ffmpeg: invalid data"],
     [rc |-> 1, stderr |-> ""]}

\* what running whisper-cli can do (transcriber.py line 142)
WhisperOutcomes ==
    {[rc |-> 0, stderr |-> ""], [rc |-> 1, stderr |-> "whisper: failed"],
     [rc |-> 1, stderr |-> ""]}

\* entries of the call log
Run(argv) == [op |-> "run", argv |-> argv]

Unlink(p) == [op |-> "unlink", argv |-> <<PathStr(p)>>]

Mkstemp(p) == [op |-> "mkstemp", argv |-> <<PathStr(p)>>]

Exception(type, msg) == [type |-> type, msg |-> msg]

-----------------------------------------------------------------------------
\* Initial state: nothing constructed; the environment resolves any subset of
\* the two binaries; the audio files exist and at most one model file does.

Init ==
    /\ pc = "init"
    /\ env \in [whisper : BOOLEAN, ffmpeg : BOOLEAN]
    /\ \E m \in {{}, {_default_model_path("medium")}, {CustomModelPath}} :
          fs = SingleFiles \cup m
    /\ self = None
    /\ exc = None
    /\ ret = None
    /\ calls = <<>>
    /\ audio_paths = <<>>
    /\ output_dir = None
    /\ output_format = "txt"
    /\ idx = 0
    /\ results = <<>>
    /\ in_batch = FALSE
    /\ audio_path = None
    /\ given_output = None
    /\ output_path = None
    /\ probe = None
    /\ compatible = None
    /\ temp_wav = None
    /\ wav_path = None
    /\ converts = 0
    /\ engine = None
    /\ pending = None
    /\ tmp_n = 0
    /\ api = None
    /\ dirs = BaseDirs
    /\ input_files = <<>>
    /\ warnings = <<>>
    /\ main_output_dir = None
    /\ main_output_file = None
    /\ exit_code = None

batchVars == <<audio_paths, output_dir, idx, results>>

frameVars == <<audio_path, given_output, output_path, probe, compatible,
               temp_wav, wav_path, converts, engine, pending>>

-----------------------------------------------------------------------------
\* Transcriber.__init__ and _verify_dependencies

\* the `which` runs of _verify_dependencies, in order
WhichCalls(e) ==
    <<Run(<<"which", WHISPER_BINARY>>)>>
    \o (IF e.whisper THEN <<Run(<<"which", "ffmpeg">>)>> ELSE <<>>)

\* variant: the model file is not checked
_verify_dependencies_NoModelCheck(e, files, model_path, model) ==
    IF ~e.whisper
    THEN Some(<<WHISPER_BINARY, " not found. Install with: brew install whisper-cpp">>)
    ELSE IF ~e.ffmpeg
    THEN Some(<<"ffmpeg", " not found. Install with: brew install ffmpeg">>)
    ELSE None

\* the message of the DependencyError raised, or None when all checks pass
_verify_dependencies(e, files, model_path, model) ==
    IF ~e.whisper
    THEN Some(<<WHISPER_BINARY, " not found. Install with: brew install whisper-cpp">>)
    ELSE IF ~e.ffmpeg
    THEN Some(<<"ffmpeg", " not found. Install with: brew install ffmpeg">>)
    ELSE IF model_path \notin files
    THEN Some(<<"Model not found at ", PathStr(model_path),
                ". Download with: whisper-cpp-download-ggml-model ", model>>)
    ELSE None

Construct ==
    /\ pc = "init"
    /\ \E a \in CtorArgs :
          LET model_path == IF a.model_path.none THEN _default_model_path(a.model)
                                                ELSE a.model_path.v
              dep == _verify_dependencies(env, fs, model_path, a.model)
          IN  /\ api' = Some([fn |-> "Transcriber", model |-> a.model,
                              model_path |-> model_path])
              /\ calls' = calls \o WhichCalls(env)
              /\ IF dep.none
                 THEN /\ self' = Some([model |-> a.model, model_path |-> model_path,
                                       language |-> a.language])
                      /\ pc' = "ready"
                      /\ exc' = exc
                 ELSE /\ self' = self
                      /\ pc' = "done"
                      /\ exc' = Some(Exception("DependencyError", dep.v))
    /\ UNCHANGED <<cliVars, env, fs, ret, batchVars, output_format, in_batch, frameVars, tmp_n>>


-----------------------------------------------------------------------------
\* convert_to_whisper_format(input_path, output_path), given what ffmpeg did:
\* the files afterwards, the log entries, and the path returned or the
\* ConversionError raised.

TempPath(n) == Path("/tmp", <<"tmp" \o ToString(n), "wav">>)

\* variant: the overwrite flag is missing
FfmpegArgv_NoOverwrite(input_path, out) ==
    <<"ffmpeg", "-i", PathStr(input_path),
      "-ar", ToString(REQUIRED_SAMPLE_RATE), "-ac", ToString(REQUIRED_CHANNELS),
      "-c:a", "pcm_s16le", PathStr(out)>>

FfmpegArgv(input_path, out) ==
    <<"ffmpeg", "-y", "-i", PathStr(input_path),
      "-ar", ToString(REQUIRED_SAMPLE_RATE), "-ac", ToString(REQUIRED_CHANNELS),
      "-c:a", "pcm_s16le", PathStr(out)>>

\* variant: the exit status of ffmpeg is not checked
convert_to_whisper_format_Unchecked(input_path, out_arg, o, files, n) ==
    LET fresh == out_arg.none
        out == IF fresh THEN TempPath(n + 1) ELSE out_arg.v
        created == IF fresh THEN files \cup {out} ELSE files
    IN  [tmp_n |-> IF fresh THEN n + 1 ELSE n,
         log |-> (IF fresh THEN <<Mkstemp(out)>> ELSE <<>>)
                 \o <<Run(FfmpegArgv(input_path, out))>>,
         fs |-> IF o.rc = 0 THEN created \cup {out} ELSE created,
         exc |-> None,
         out |-> out]

convert_to_whisper_format(input_path, out_arg, o, files, n) ==
    LET fresh == out_arg.none
        out == IF fresh THEN TempPath(n + 1) ELSE out_arg.v
        created == IF fresh THEN files \cup {out} ELSE files
    IN  [tmp_n |-> IF fresh THEN n + 1 ELSE n,
         log |-> (IF fresh THEN <<Mkstemp(out)>> ELSE <<>>)
                 \o <<Run(FfmpegArgv(input_path, out))>>,
         fs |-> IF o.rc = 0 THEN created \cup {out} ELSE created,
         exc |-> IF o.rc = 0 THEN None
                 ELSE Some(Exception("ConversionError",
                        <<"Failed to convert ", PathStr(input_path), ": ", o.stderr>>)),
         out |-> out]

\* a direct call of convert_to_whisper_format
CallConvert ==
    /\ pc = "ready"
    /\ \E input_path \in AudioFiles,
          out_arg \in {None, Some(Path("out", <<"conv", "wav">>))},
          o \in FfmpegOutcomes :
          LET c == convert_to_whisper_format(input_path, out_arg, o, fs, tmp_n)
          IN  /\ api' = Some([fn |-> "convert_to_whisper_format",
                              input_path |-> input_path, output_path |-> out_arg,
                              rc |-> o.rc, stderr |-> o.stderr])
              /\ fs' = c.fs
              /\ tmp_n' = c.tmp_n
              /\ calls' = calls \o c.log
              /\ exc' = c.exc
              /\ ret' = IF c.exc.none THEN Some(c.out) ELSE None
    /\ pc' = "done"
    /\ UNCHANGED <<cliVars, env, self, batchVars, output_format, in_batch, frameVars>>

-----------------------------------------------------------------------------
\* a direct call of detect_format

\* the extension spellings of the paths handed to detect_format
Spellings ==
    {"wav", "Wav", "WAV", "mp3", "MP3", "m4a", "M4A", "flac", "FLAC", "ogg",
     "Ogg", "aac", "AAC", "wma", "WmA", "opus", "OPUS", "txt", "TXT", "xyz", "mp4"}

\* test.<ext>, names with two dots and a name without extension
DetectPaths ==
    {Path("in", <<"test", e>>) : e \in Spellings}
        \cup {Path("in", <<"b", "x", e>>) : e \in {"mp3", "MP3", "xyz"}}
        \cup {Path("in", <<"a", "mp3", "txt">>), Path("in", <<"memo">>),
              Path("in", <<"mp3">>)}

CallDetectFormat ==
    /\ pc = "ready"
    /\ \E file_path \in DetectPaths :
          /\ api' = Some([fn |-> "detect_format", file_path |-> file_path])
          /\ ret' = Some(detect_format(file_path))
    /\ pc' = "done"
    /\ UNCHANGED <<cliVars, env, fs, self, exc, calls, batchVars, output_format, in_batch,
                   frameVars, tmp_n>>

-----------------------------------------------------------------------------
\* Transcriber.transcribe

\* where a returning call continues: in main (cli.py line 256) or nowhere
CallerPc == IF ~api.none /\ api.v.fn = "main" THEN "m_summary" ELSE "done"

\* lines 97-104: entry of transcribe(audio, out_arg, fmt)
TranscribeEnter(audio, out_arg, fmt) ==
    /\ audio_path' = Some(audio)
    /\ given_output' = out_arg
    /\ output_path' = Some(IF out_arg.none THEN with_suffix(audio, fmt) ELSE out_arg.v)
    /\ output_format' = fmt
    /\ probe' = None
    /\ compatible' = None
    /\ temp_wav' = None
    /\ wav_path' = None
    /\ converts' = 0
    /\ engine' = None
    /\ pending' = None
    /\ pc' = "t_probe"

\* a direct call of transcribe
CallTranscribe ==
    /\ pc = "ready"
    /\ \E audio \in SingleFiles, out_arg \in OutputArgs, fmt \in Formats :
          /\ TranscribeEnter(audio, out_arg, fmt)
          /\ api' = Some([fn |-> "transcribe", audio_path |-> audio,
                          output_path |-> out_arg, output_format |-> fmt])
    /\ in_batch' = FALSE
    /\ UNCHANGED <<cliVars, env, fs, self, exc, ret, calls, batchVars, tmp_n>>

\* variant: every file is converted
NeedsConversion_Always(is_compatible) == TRUE

\* line 105: `if not is_whisper_compatible(audio_path)`
NeedsConversion(is_compatible) == ~is_compatible

\* line 105: is_whisper_compatible(audio_path); an exception it raises
\* leaves transcribe (and transcribe_batch), which have no handler for it
Probe ==
    /\ pc = "t_probe"
    /\ \E p \in ProbeOutcomes :
          LET r == is_whisper_compatible(p)
          IN  /\ probe' = Some(p)
              /\ calls' = calls \o <<Run(<<"ffprobe", "-v", "quiet", "-print_format",
                                          "json", "-show_streams", PathStr(audio_path.v)>>)>>
              /\ IF r.exc # "None"
                 THEN /\ exc' = Some(Exception(r.exc, <<>>))
                      /\ pc' = "done"
                      /\ UNCHANGED <<compatible, wav_path>>
                 ELSE /\ exc' = exc
                      /\ compatible' = Some(r.ret)
                      /\ wav_path' = IF NeedsConversion(r.ret) THEN wav_path
                                                                ELSE audio_path
                      /\ pc' = IF NeedsConversion(r.ret) THEN "t_convert"
                                                         ELSE "t_whisper"
    /\ UNCHANGED <<cliVars, env, fs, self, ret, batchVars, output_format, in_batch,
                   audio_path, given_output, output_path, temp_wav, converts,
                   engine, pending, tmp_n, api>>

\* lines 106-111: convert_to_whisper_format(audio_path); a ConversionError
\* leaves transcribe (and transcribe_batch), the try block not yet entered
Convert ==
    /\ pc = "t_convert"
    /\ \E o \in FfmpegOutcomes :
          LET c == convert_to_whisper_format(audio_path.v, None, o, fs, tmp_n)
          IN  /\ fs' = c.fs
              /\ tmp_n' = c.tmp_n
              /\ calls' = calls \o c.log
              /\ converts' = converts + 1
              /\ exc' = c.exc
              /\ IF c.exc.none
                 THEN /\ temp_wav' = Some(c.out)
                      /\ wav_path' = Some(c.out)
                      /\ pc' = "t_whisper"
                 ELSE /\ UNCHANGED <<temp_wav, wav_path>>
                      /\ pc' = "done"
    /\ probe' = None
    /\ UNCHANGED <<cliVars, env, self, ret, batchVars, output_format, in_batch,
                   audio_path, given_output, output_path, compatible,
                   engine, pending, api>>

\* variant: the language hint is never passed
WhisperCmd_NoLanguage(model_path, wav, fmt, out, language) ==
    <<WHISPER_BINARY, "-m", PathStr(model_path), "-f", PathStr(wav),
      "-o" \o fmt, "-of", PathStr(strip_suffix(out))>>

\* lines 119-133: the whisper-cli command line
WhisperCmd(model_path, wav, fmt, out, language) ==
    <<WHISPER_BINARY, "-m", PathStr(model_path), "-f", PathStr(wav),
      "-o" \o fmt, "-of", PathStr(strip_suffix(out))>>
    \o (IF language.none THEN <<>> ELSE <<"-l", language.v>>)

\* the file whisper-cli writes: the -of prefix and the format's extension
WhisperWrites(out, fmt) ==
    LET prefix == strip_suffix(out) IN Path(prefix.parent, prefix.name \o <<fmt>>)

\* str(e) of the CalledProcessError
StrCalledProcessError(cmd, rc) ==
    "Command '" \o cmd[1] \o "' returned non-zero exit status " \o ToString(rc) \o "."

\* variant: the error is e.stderr alone
ErrorText_StderrOnly(stderr, cmd, rc) == stderr

\* line 159: e.stderr or str(e)
ErrorText(stderr, cmd, rc) ==
    IF stderr # "" THEN stderr ELSE StrCalledProcessError(cmd, rc)

\* lines 146-151
SuccessResult(input, out, model) ==
    [input_file |-> input, output_file |-> out, model |-> model,
     success |-> TRUE, error |-> None]

\* variant: the failure result is built without its error argument
FailureResult_NoError(input, out, model, error) ==
    [input_file |-> input, output_file |-> out, model |-> model,
     success |-> FALSE, error |-> None]

\* lines 154-160
FailureResult(input, out, model, error) ==
    [input_file |-> input, output_file |-> out, model |-> model,
     success |-> FALSE, error |-> Some(error)]

\* lines 139-160: run whisper-cli; both branches of the try go on to the
\* finally clause with the result they return
Whisper ==
    /\ pc = "t_whisper"
    /\ \E o \in WhisperOutcomes :
          LET cmd == WhisperCmd(self.v.model_path, wav_path.v, output_format,
                                output_path.v, self.v.language)
          IN  /\ calls' = calls \o <<Run(cmd)>>
              /\ engine' = Some(o)
              /\ fs' = IF o.rc = 0
                       THEN fs \cup {WhisperWrites(output_path.v, output_format)}
                       ELSE fs
              /\ pending' =
                   Some(IF o.rc = 0
                        THEN SuccessResult(audio_path.v, output_path.v, self.v.model)
                        ELSE FailureResult(audio_path.v, output_path.v, self.v.model,
                                           ErrorText(o.stderr, cmd, o.rc)))
    /\ probe' = None
    /\ pc' = "t_finally"
    /\ UNCHANGED <<cliVars, env, self, exc, ret, batchVars, output_format, in_batch,
                   audio_path, given_output, output_path, compatible,
                   temp_wav, wav_path, converts, tmp_n, api>>

\* variant: the finally clause unlinks nothing
CleanupFs_NoUnlink(tw, files) == files

\* lines 163-166: `if temp_wav and temp_wav.exists(): temp_wav.unlink()`
CleanupFs(tw, files) ==
    IF ~tw.none /\ tw.v \in files THEN files \ {tw.v} ELSE files

CleanupLog(tw, files) ==
    IF ~tw.none /\ tw.v \in files THEN <<Unlink(tw.v)>> ELSE <<>>

\* lines 161-166, then the return: to the caller of a direct call, or into
\* the loop of transcribe_batch (lines 197-198)
Finally ==
    /\ pc = "t_finally"
    /\ fs' = CleanupFs(temp_wav, fs)
    /\ calls' = calls \o CleanupLog(temp_wav, fs)
    /\ IF in_batch
       THEN /\ results' = Append(results, pending.v)
            /\ idx' = idx + 1
            /\ pc' = "b_loop"
            /\ ret' = ret
       ELSE /\ ret' = pending
            /\ pc' = CallerPc
            /\ UNCHANGED <<results, idx>>
    /\ UNCHANGED <<cliVars, env, self, exc, audio_paths, output_dir, output_format,
                   in_batch, frameVars, tmp_n, api>>

-----------------------------------------------------------------------------
\* Transcriber.transcribe_batch

\* lines 185-186
CallBatch ==
    /\ pc = "ready"
    /\ \E paths \in AudioLists, dir \in OutputDirs, fmt \in Formats :
          /\ audio_paths' = paths
          /\ output_dir' = dir
          /\ output_format' = fmt
          /\ api' = Some([fn |-> "transcribe_batch", audio_paths |-> paths,
                          output_dir |-> dir, output_format |-> fmt])
    /\ results' = <<>>
    /\ idx' = 0
    /\ in_batch' = TRUE
    /\ pc' = "b_loop"
    /\ UNCHANGED <<cliVars, env, fs, self, exc, ret, calls, frameVars, tmp_n>>

\* variant: the shared output directory is ignored
BatchOutputArg_NoDirectory(audio, dir, fmt) == None

\* lines 189-194: the output_path argument for one file
BatchOutputArg(audio, dir, fmt) ==
    IF dir.none THEN None
    ELSE Some(JoinDir(dir.v, with_suffix(audio, fmt).name))

\* lines 188-197: one iteration enters transcribe
BatchIter ==
    /\ pc = "b_loop"
    /\ idx < Len(audio_paths)
    /\ LET audio == audio_paths[idx + 1]
       IN  TranscribeEnter(audio, BatchOutputArg(audio, output_dir, output_format),
                           output_format)
    /\ UNCHANGED <<cliVars, env, fs, self, exc, ret, calls, batchVars, in_batch, tmp_n, api>>

\* line 200
BatchReturn ==
    /\ pc = "b_loop"
    /\ idx = Len(audio_paths)
    /\ ret' = Some(results)
    /\ pc' = CallerPc
    /\ UNCHANGED <<cliVars, env, fs, self, exc, calls, batchVars, output_format, in_batch,
                   frameVars, tmp_n, api>>

-----------------------------------------------------------------------------
\* cli.py: resolve_input_files and main

\* further entries on disk when the command line runs: an upper-case
\* extension, a text file, and a directory whose name ends in .mp3
CliFiles == {Path("in2", <<"C", "MP3">>), Path("in2", <<"notes", "txt">>)}

CliDirs == {Path("in2", <<"sub", "mp3">>)}

\* the -o target of the model, which may exist as a file or as a directory
OutTarget == Path(".", <<"out">>)

\* the order `sorted` puts the paths of the model in
SortOrder ==
    <<Path(".", <<"in">>), Path("in", <<"a", "mp3">>), Path("in", <<"a", "wav">>),
      Path("in", <<"memo">>), Path("in", <<"missing", "mp3">>),
      Path(".", <<"in2">>), Path("in2", <<"C", "MP3">>),
      Path("in2", <<"b", "x", "mp3">>), Path("in2", <<"notes", "txt">>),
      Path("in2", <<"sub", "mp3">>)>>

\* sorted(set(files))
sorted(S) == SelectSeq(SortOrder, LAMBDA p : p \in S)

\* path.glob("*" + ext): the entries of the directory whose name ends in ext
glob(path, ext, files, ds) ==
    {q \in files \cup ds : q.parent = PathStr(path) /\ JoinChars(suffix(q)) = ext}

\* variant: no warning is printed for a missing path
resolve_input_files_Silent(input_args, files, ds) ==
    LET named == {p \in {input_args[i] : i \in 1..Len(input_args)} :
                      p \in files /\ JoinChars(lower(suffix(p))) \in SUPPORTED_AUDIO_EXTENSIONS}
        expanded == {p \in {input_args[i] : i \in 1..Len(input_args)} :
                         p \notin files /\ p \in ds}
        globbed == UNION {glob(p, ext, files, ds) :
                              p \in expanded, ext \in SUPPORTED_AUDIO_EXTENSIONS}
    IN  [files |-> sorted(named \cup globbed), warnings |-> <<>>]

\* cli.py lines 164-184: the list returned and the paths warned about
resolve_input_files(input_args, files, ds) ==
    LET named == {p \in {input_args[i] : i \in 1..Len(input_args)} :
                      p \in files /\ JoinChars(lower(suffix(p))) \in SUPPORTED_AUDIO_EXTENSIONS}
        expanded == {p \in {input_args[i] : i \in 1..Len(input_args)} :
                         p \notin files /\ p \in ds}
        globbed == UNION {glob(p, ext, files, ds) :
                              p \in expanded, ext \in SUPPORTED_AUDIO_EXTENSIONS}
    IN  [files |-> sorted(named \cup globbed),
         warnings |-> SelectSeq(input_args, LAMBDA p : p \notin files /\ p \notin ds)]

\* paths named on the command line: files, a missing file, directories
ResolveArgs ==
    {Path("in", <<"a", "wav">>), Path("in", <<"memo">>),
     Path("in", <<"missing", "mp3">>), Path("in2", <<"C", "MP3">>),
     Path("in2", <<"notes", "txt">>), Path(".", <<"in">>), Path(".", <<"in2">>)}

ResolveArgLists == UNION {[1..n -> ResolveArgs] : n \in 0..MaxFiles}

\* a direct call of resolve_input_files
CallResolve ==
    /\ pc = "m_start"
    /\ \E input_args \in ResolveArgLists :
          LET r == resolve_input_files(input_args, fs, dirs)
          IN  /\ api' = Some([fn |-> "resolve_input_files", input_args |-> input_args])
              /\ ret' = Some(r.files)
              /\ warnings' = r.warnings
    /\ pc' = "done"
    /\ UNCHANGED <<env, fs, self, exc, calls, batchVars, output_format, in_batch,
                   frameVars, tmp_n, dirs, input_files, main_output_dir,
                   main_output_file, exit_code>>

\* cli.py lines 20-25: the URL of a model, None for an unknown name
MODEL_URLS(model) ==
    IF model \in {"medium", "large", "large-v2", "large-v3"}
    THEN Some("https://huggingface.co/ggerganov/whisper.cpp/resolve/main/ggml-"
              \o model \o ".bin")
    ELSE None

\* the model directory as an entry of its parent directory
ModelDirEntry == Path("~/.cache", <<"whisper">>)

\* what running curl can do: exit 0 with the file written, exit non-zero
\* with a partial file or with none, or not start at all
CurlOutcomes ==
    {[kind |-> "exit", rc |-> 0, wrote |-> TRUE],
     [kind |-> "exit", rc |-> 18, wrote |-> TRUE],
     [kind |-> "exit", rc |-> 6, wrote |-> FALSE],
     [kind |-> "oserror", rc |-> 0, wrote |-> FALSE]}

CurlArgv(model_file, url) ==
    <<"curl", "-L", "-o", PathStr(model_file), "--progress-bar", url>>

\* variant: a partial download is left in place
download_model_NoCleanup(model, o, files, ds) ==
    LET model_file == Path(MODEL_DIR, <<"ggml-" \o model, "bin">>)
        url == MODEL_URLS(model)
    IN  IF model_file \in files
        THEN [ret |-> Some(TRUE), exc |-> None, fs |-> files, dirs |-> ds, log |-> <<>>]
        ELSE IF url.none
        THEN [ret |-> Some(FALSE), exc |-> None, fs |-> files,
              dirs |-> ds \cup {ModelDirEntry}, log |-> <<>>]
        ELSE [ret |-> IF o.kind = "oserror" THEN None ELSE Some(o.rc = 0),
              exc |-> IF o.kind = "oserror"
                      THEN Some(Exception("FileNotFoundError", <<>>)) ELSE None,
              fs |-> IF o.wrote THEN files \cup {model_file} ELSE files,
              dirs |-> ds \cup {ModelDirEntry},
              log |-> <<Run(CurlArgv(model_file, url.v))>>]

\* cli.py lines 111-161: the value returned or the exception raised, the
\* files and directories afterwards, and the process run
download_model(model, o, files, ds) ==
    LET model_file == Path(MODEL_DIR, <<"ggml-" \o model, "bin">>)
        url == MODEL_URLS(model)
    IN  IF model_file \in files
        THEN [ret |-> Some(TRUE), exc |-> None, fs |-> files, dirs |-> ds, log |-> <<>>]
        ELSE IF url.none
        THEN [ret |-> Some(FALSE), exc |-> None, fs |-> files,
              dirs |-> ds \cup {ModelDirEntry}, log |-> <<>>]
        ELSE [ret |-> IF o.kind = "oserror" THEN None ELSE Some(o.rc = 0),
              exc |-> IF o.kind = "oserror"
                      THEN Some(Exception("FileNotFoundError", <<>>)) ELSE None,
              fs |-> IF o.kind = "exit" /\ o.rc = 0 /\ o.wrote
                     THEN files \cup {model_file} ELSE files \ {model_file},
              dirs |-> ds \cup {ModelDirEntry},
              log |-> <<Run(CurlArgv(model_file, url.v))>>]

\* model names handed to download_model: two known ones and an unknown one
DownloadModels == {"medium", "large-v3", "tiny"}

\* a direct call of download_model
CallDownload ==
    /\ pc = "m_start"
    /\ \E model \in DownloadModels, o \in CurlOutcomes :
          LET r == download_model(model, o, fs, dirs)
          IN  /\ api' = Some([fn |-> "download_model", model |-> model, curl |-> o])
              /\ ret' = r.ret
              /\ exc' = r.exc
              /\ fs' = r.fs
              /\ dirs' = r.dirs
              /\ calls' = calls \o r.log
    /\ pc' = "done"
    /\ UNCHANGED <<env, self, batchVars, output_format, in_batch, frameVars, tmp_n,
                   input_files, warnings, main_output_dir, main_output_file,
                   exit_code>>

\* the positional arguments of main
MainInputs ==
    {l \in {<<>>,
            <<Path("in", <<"a", "wav">>)>>,
            <<Path("in", <<"missing", "mp3">>)>>,
            <<Path("in", <<"a", "wav">>), Path("in", <<"missing", "mp3">>)>>,
            <<Path(".", <<"in">>)>>,
            <<Path("in2", <<"b", "x", "mp3">>), Path("in", <<"a", "mp3">>)>>} :
        Len(l) <= MaxFiles}

\* an -o value: the path it names and the separator it ends with, if any
OutputValue(parent, name, trail) == [parent |-> parent, name |-> name, trail |-> trail]

\* -o absent, out/, out, out/t.txt and out\
MainOutputs ==
    {None,
     Some(OutputValue(".", <<"out">>, "/")),
     Some(OutputValue(".", <<"out">>, "")),
     Some(OutputValue("out", <<"t", "txt">>, "")),
     Some(OutputValue(".", <<"out">>, "\\"))}

\* --model, --model-path and --language
MainCtor ==
    {[model |-> "medium", model_path |-> None, language |-> None],
     [model |-> "large", model_path |-> Some(CustomModelPath), language |-> Some("en")]}

\* Path(args.output): a trailing slash is dropped, a trailing backslash is
\* part of the name
PathOfOutput(o) ==
    IF o.trail = "\\"
    THEN Path(o.parent, SubSeq(o.name, 1, Len(o.name) - 1)
                            \o <<o.name[Len(o.name)] \o "\\">>)
    ELSE Path(o.parent, o.name)

\* the directory a path of the model lies in, when it is not the current one
ParentDir(p) == IF p.parent = "." THEN {} ELSE {Path(".", <<p.parent>>)}

\* Path.mkdir(parents=True, exist_ok=True): the exception it raises, or None
mkdir_error(p, files) ==
    IF ParentDir(p) \cap files # {} THEN Some(Exception("NotADirectoryError", <<>>))
    ELSE IF p \in files THEN Some(Exception("FileExistsError", <<>>))
    ELSE None

\* variant: only a trailing separator makes -o a directory
IsOutputDir_TrailingOnly(o, ds, n) == o.trail \in {"/", "\\"}

\* lines 221-222: is -o a directory?
IsOutputDir(o, ds, n) ==
    \/ o.trail \in {"/", "\\"}
    \/ PathOfOutput(o) \in ds
    \/ n > 1

InitCli ==
    /\ pc = "m_start"
    /\ env \in [whisper : BOOLEAN, ffmpeg : BOOLEAN]
    /\ \E m \in {{}, {_default_model_path("medium")}, {CustomModelPath}},
          o \in {"absent", "file", "dir"} :
          /\ fs = SingleFiles \cup CliFiles \cup m
                      \cup (IF o = "file" THEN {OutTarget} ELSE {})
          /\ dirs = BaseDirs \cup CliDirs \cup (IF o = "dir" THEN {OutTarget} ELSE {})
    /\ self = None
    /\ exc = None
    /\ ret = None
    /\ calls = <<>>
    /\ audio_paths = <<>>
    /\ output_dir = None
    /\ output_format = "txt"
    /\ idx = 0
    /\ results = <<>>
    /\ in_batch = FALSE
    /\ audio_path = None
    /\ given_output = None
    /\ output_path = None
    /\ probe = None
    /\ compatible = None
    /\ temp_wav = None
    /\ wav_path = None
    /\ converts = 0
    /\ engine = None
    /\ pending = None
    /\ tmp_n = 0
    /\ api = None
    /\ input_files = <<>>
    /\ warnings = <<>>
    /\ main_output_dir = None
    /\ main_output_file = None
    /\ exit_code = None

\* line 204: `if not input_files`
NoInputFiles(files) == files = <<>>

\* variant: the dependency problem is not turned into exit code 1
DependencyExit_None(dep) == None

\* lines 237-239: `except DependencyError ... return 1`
DependencyExit(dep) == IF dep.none THEN None ELSE Some(1)

\* lines 187-227: parse, resolve the input files, decide on the output
MainStart ==
    /\ pc = "m_start"
    /\ \E input \in MainInputs, output \in MainOutputs, fmt \in Formats, a \in MainCtor :
          LET r == resolve_input_files(input, fs, dirs)
          IN  /\ api' = Some([fn |-> "main", input |-> input, output |-> output,
                              format |-> fmt, model |-> a.model,
                              model_path |-> a.model_path, language |-> a.language])
              /\ IF input = <<>>
                 THEN \* parser.error: usage message, SystemExit(2)
                      /\ exc' = Some(Exception("SystemExit", <<"2">>))
                      /\ pc' = "done"
                      /\ UNCHANGED cliVars
                 ELSE /\ input_files' = r.files
                      /\ warnings' = r.warnings
                      /\ IF NoInputFiles(r.files)
                         THEN /\ exit_code' = Some(1)
                              /\ pc' = "done"
                              /\ UNCHANGED <<exc, dirs, main_output_dir, main_output_file>>
                         ELSE /\ exit_code' = exit_code
                              /\ IF output.none
                                 THEN /\ pc' = "m_construct"
                                      /\ UNCHANGED <<exc, dirs, main_output_dir,
                                                     main_output_file>>
                                 ELSE IF IsOutputDir(output.v, dirs, Len(r.files))
                                 THEN /\ main_output_dir' = Some(PathOfOutput(output.v))
                                      /\ main_output_file' = main_output_file
                                      /\ exc' = mkdir_error(PathOfOutput(output.v), fs)
                                      /\ IF mkdir_error(PathOfOutput(output.v), fs).none
                                         THEN /\ dirs' = dirs \cup {PathOfOutput(output.v)}
                                                      \cup ParentDir(PathOfOutput(output.v))
                                              /\ pc' = "m_construct"
                                         ELSE \* a regular file is in the way
                                              /\ dirs' = dirs
                                              /\ pc' = "done"
                                 ELSE /\ main_output_file' = Some(PathOfOutput(output.v))
                                      /\ pc' = "m_construct"
                                      /\ UNCHANGED <<exc, dirs, main_output_dir>>
    /\ UNCHANGED <<env, fs, self, ret, calls, batchVars, output_format, in_batch,
                   frameVars, tmp_n>>

\* lines 229-239: the Transcriber is constructed; DependencyError ends main
MainConstruct ==
    /\ pc = "m_construct"
    /\ LET model_path == IF api.v.model_path.none THEN _default_model_path(api.v.model)
                                                  ELSE api.v.model_path.v
           dep == _verify_dependencies(env, fs, model_path, api.v.model)
       IN  /\ calls' = calls \o WhichCalls(env)
           /\ exit_code' = DependencyExit(dep)
           /\ IF dep.none
              THEN /\ self' = Some([model |-> api.v.model, model_path |-> model_path,
                                    language |-> api.v.language])
                   /\ pc' = "m_run"
              ELSE /\ self' = self
                   /\ pc' = IF DependencyExit(dep).none THEN "m_run" ELSE "done"
    /\ UNCHANGED <<env, fs, exc, ret, batchVars, output_format, in_batch, frameVars,
                   tmp_n, api, dirs, input_files, warnings, main_output_dir,
                   main_output_file>>

\* variant: a single input file always takes the single-file path
SingleFileMode_IgnoresDir(files, dir) == Len(files) = 1

\* line 249: `if len(input_files) == 1 and not output_dir`
SingleFileMode(files, dir) == Len(files) = 1 /\ dir.none

\* lines 248-254: transcribe for one file, transcribe_batch otherwise
MainRun ==
    /\ pc = "m_run"
    /\ IF SingleFileMode(input_files, main_output_dir)
       THEN /\ TranscribeEnter(input_files[1], main_output_file, api.v.format)
            /\ in_batch' = FALSE
            /\ UNCHANGED batchVars
       ELSE /\ audio_paths' = input_files
            /\ output_dir' = IF main_output_dir.none THEN None
                             ELSE Some(PathStr(main_output_dir.v))
            /\ output_format' = api.v.format
            /\ results' = <<>>
            /\ idx' = 0
            /\ in_batch' = TRUE
            /\ pc' = "b_loop"
            /\ UNCHANGED frameVars
    /\ UNCHANGED <<cliVars, env, fs, self, exc, ret, calls, tmp_n, api>>

\* lines 256-268: the exit code from the results
MainSummary ==
    /\ pc = "m_summary"
    /\ LET rs == IF in_batch THEN ret.v ELSE <<ret.v>>
           success_count == Cardinality({i \in 1..Len(rs) : rs[i].success})
       IN  exit_code' = Some(IF success_count = Len(rs) THEN 0 ELSE 1)
    /\ pc' = "done"
    /\ UNCHANGED <<env, fs, self, exc, ret, calls, batchVars, output_format,
                   in_batch, frameVars, tmp_n, api, dirs, input_files, warnings,
                   main_output_dir, main_output_file>>

-----------------------------------------------------------------------------

Next ==
    \/ Construct
    \/ CallConvert
    \/ CallDetectFormat
    \/ CallTranscribe
    \/ Probe
    \/ Convert
    \/ Whisper
    \/ Finally
    \/ CallBatch
    \/ BatchIter
    \/ BatchReturn

Spec == Init /\ [][Next]_vars

NextCli ==
    \/ CallResolve
    \/ CallDownload
    \/ MainStart
    \/ MainConstruct
    \/ MainRun
    \/ Probe
    \/ Convert
    \/ Whisper
    \/ Finally
    \/ BatchIter
    \/ BatchReturn
    \/ MainSummary

SpecCli == InitCli /\ [][NextCli]_vars


-----------------------------------------------------------------------------
\* Properties

\* the top-level call in progress is fn
InCall(fn) == ~api.none /\ api.v.fn = fn

\* the top-level call has ended, by a return or by an exception
Ended(fn) == InCall(fn) /\ pc = "done"

\* C1: transcribe_batch over N files ends by returning exactly N results,
\* the i-th for the i-th input file, whatever the external calls do; no
\* failure on one file keeps the following files from being attempted.
C1_BatchReturnsOneResultPerFile ==
    Ended("transcribe_batch") =>
        /\ exc.none
        /\ ~ret.none
        /\ Len(ret.v) = Len(audio_paths)
        /\ \A i \in 1..Len(audio_paths) : ret.v[i].input_file = audio_paths[i]

\* C2: when whisper-cli exits non-zero, transcribe raises nothing and its
\* result has success = FALSE and, as error, the standard-error text of
\* the process, or a non-empty generic message when that text is empty.
C2_EngineFailureBecomesResult ==
    (~engine.none /\ engine.v.rc # 0) =>
        /\ exc.none
        /\ ~pending.none
        /\ pending.v.success = FALSE
        /\ ~pending.v.error.none
        /\ pending.v.error.v # ""
        /\ (engine.v.stderr # "" => pending.v.error.v = engine.v.stderr)
        /\ (Ended("transcribe") => ret = pending)

C2_Witness ==
    /\ Ended("transcribe")
    /\ ~engine.none /\ engine.v.rc # 0 /\ engine.v.stderr = ""
    /\ ~ret.none /\ ~ret.v.success

\* transcribe has left its try/finally (returned to its caller)
TranscribeReturned ==
    /\ ~engine.none
    /\ pc \in {"b_loop", "done"}

\* C3: once transcribe has returned after creating a temporary converted
\* file, that file does not exist, whether whisper-cli exited zero or not.
C3_TempFileRemovedOnExit ==
    (TranscribeReturned /\ ~temp_wav.none) => temp_wav.v \notin fs

C3_Witness ==
    /\ Ended("transcribe")
    /\ ~temp_wav.none /\ temp_wav.v \notin fs
    /\ ~engine.none /\ engine.v.rc # 0
    /\ \E i \in 1..Len(calls) : calls[i] = Mkstemp(temp_wav.v)

\* C4: in one transcribe call the converter is invoked zero times when the
\* prober reports the file compatible and exactly once when it reports it
\* incompatible.
C4_ConverterCalledIffIncompatible ==
    /\ converts <= 1
    /\ (compatible = Some(TRUE) => converts = 0)
    /\ ((compatible = Some(FALSE) /\ pc # "t_convert") => converts = 1)
    /\ (compatible.none => converts = 0)

C4_Witness ==
    /\ TranscribeReturned
    /\ compatible = Some(FALSE)
    /\ converts = 1

\* success implies no error; failure implies a non-empty error string
ResultInvariant(r) ==
    /\ (r.success => r.error.none)
    /\ (~r.success => (~r.error.none /\ r.error.v # ""))

\* C5: every TranscriptionResult produced by transcribe or transcribe_batch
\* has error None when success is true and a non-empty error string when
\* success is false.
C5_ResultInvariant ==
    /\ (~pending.none => ResultInvariant(pending.v))
    /\ \A i \in 1..Len(results) : ResultInvariant(results[i])
    /\ (Ended("transcribe") /\ ~ret.none => ResultInvariant(ret.v))
    /\ (Ended("transcribe_batch") /\ ~ret.none =>
            \A i \in 1..Len(ret.v) : ResultInvariant(ret.v[i]))

C5_Witness ==
    /\ Ended("transcribe_batch")
    /\ ~ret.none
    /\ \E i, j \in 1..Len(ret.v) :
          /\ ret.v[i].success /\ ret.v[i].error.none
          /\ ~ret.v[j].success /\ ~ret.v[j].error.none


\* the cases in which the prober must answer false
ProbeFailsClosed ==
    \/ probe.v.kind = "oserror"
    \/ probe.v.rc # 0
    \/ probe.v.stdout.t # "obj"
    \/ "streams" \notin DOMAIN probe.v.stdout.o
    \/ probe.v.stdout.o.streams.t # "arr"
    \/ probe.v.stdout.o.streams.a = <<>>
    \/ probe.v.stdout.o.streams.a[1].t # "obj"
    \/ \E k \in {"sample_rate", "channels"} :
          /\ k \in DOMAIN probe.v.stdout.o.streams.a[1].o
          /\ probe.v.stdout.o.streams.a[1].o[k].t \notin {"str", "num"}

\* C6: is_whisper_compatible never raises: when ffprobe cannot be run,
\* exits non-zero, prints malformed or unexpectedly shaped output, or
\* reports no stream, it returns false.
C6_ProberNeverRaises ==
    ~probe.none =>
        /\ exc.none
        /\ ~compatible.none
        /\ (ProbeFailsClosed => compatible = Some(FALSE))

\* the first reported stream carries a codec name, a decimal sample rate
\* string and a channel number
WellFormedProbe ==
    /\ ~probe.none
    /\ probe.v.kind = "exit"
    /\ probe.v.rc = 0
    /\ probe.v.stdout.t = "obj"
    /\ "streams" \in DOMAIN probe.v.stdout.o
    /\ probe.v.stdout.o.streams.t = "arr"
    /\ probe.v.stdout.o.streams.a # <<>>
    /\ LET st == probe.v.stdout.o.streams.a[1]
       IN  /\ st.t = "obj"
           /\ {"codec_name", "sample_rate", "channels"} \subseteq DOMAIN st.o
           /\ st.o.codec_name.t = "str"
           /\ st.o.sample_rate.t = "str"
           /\ \A i \in 1..Len(st.o.sample_rate.s) : st.o.sample_rate.s[i] \in Digits
           /\ st.o.channels.t = "num"

ProbedStream == probe.v.stdout.o.streams.a[1].o

\* C7: on well-formed output of an ffprobe run that exited zero, the
\* prober returns true exactly when the codec is pcm_s16le or pcm_s16be,
\* the sample rate is 16000 and the channel count is 1.
C7_CompatibleIffRequiredFormat ==
    WellFormedProbe =>
        /\ exc.none
        /\ compatible =
             Some(/\ ProbedStream.codec_name.s \in {<<"pcm_s16le">>, <<"pcm_s16be">>}
                  /\ ProbedStream.sample_rate.s = <<"1", "6", "0", "0", "0">>
                  /\ ProbedStream.channels.n = 1)

C7_Witness ==
    /\ WellFormedProbe
    /\ ProbedStream.codec_name.s = <<"pcm_s16be">>
    /\ compatible = Some(TRUE)
    /\ pc = "t_whisper"

C7_WitnessDeviation ==
    /\ WellFormedProbe
    /\ ProbedStream.codec_name.s = <<"pcm_s16le">>
    /\ ProbedStream.sample_rate.s = <<"1", "6", "0", "0", "0">>
    /\ ProbedStream.channels.n = 2
    /\ compatible = Some(FALSE)


\* the text pieces of a message include s
Mentions(msg, s) == \E i \in 1..Len(msg) : msg[i] = s

\* the three preconditions of construction, for the arguments given
DepsPresent == env.whisper /\ env.ffmpeg /\ api.v.model_path \in fs

\* C8: construction fails with a DependencyError naming a missing
\* dependency whenever whisper-cli or ffmpeg is not resolvable or the
\* model file does not exist (a missing model is reported with the model
\* path); it succeeds only when all three are present, and it runs neither
\* the prober, the converter nor the speech engine.
C8_ConstructionChecksDependencies ==
    /\ (pc # "init" /\ self.none) =>
          /\ Ended("Transcriber")
          /\ ~DepsPresent
          /\ ~exc.none
          /\ exc.v.type = "DependencyError"
          /\ \/ ~env.whisper /\ Mentions(exc.v.msg, WHISPER_BINARY)
             \/ ~env.ffmpeg /\ Mentions(exc.v.msg, "ffmpeg")
             \/ api.v.model_path \notin fs
                  /\ Mentions(exc.v.msg, PathStr(api.v.model_path))
          /\ ((env.whisper /\ env.ffmpeg) =>
                  Mentions(exc.v.msg, PathStr(api.v.model_path)))
          /\ \A i \in 1..Len(calls) : calls[i].argv[1] = "which"
    /\ ~self.none =>
          /\ env.whisper
          /\ env.ffmpeg
          /\ self.v.model_path \in fs
          /\ (pc = "ready" => \A i \in 1..Len(calls) : calls[i].argv[1] = "which")

C8_Witness ==
    /\ Ended("Transcriber")
    /\ env.whisper /\ env.ffmpeg
    /\ api.v.model_path = CustomModelPath
    /\ CustomModelPath \notin fs
    /\ ~exc.none /\ exc.v.type = "DependencyError"
    /\ Mentions(exc.v.msg, "models/custom.bin")

C8_WitnessConstructed == pc = "ready" /\ ~self.none

\* C9: convert_to_whisper_format raises a ConversionError carrying the
\* standard-error text of ffmpeg whenever ffmpeg exits non-zero, returns
\* the output path (the one given, or a fresh temporary .wav path)
\* whenever it exits zero, and never deletes the input file.
C9_ConvertRaisesOrReturnsOutput ==
    /\ Ended("convert_to_whisper_format") =>
          /\ api.v.input_path \in fs
          /\ (api.v.rc # 0 =>
                /\ ret.none
                /\ ~exc.none
                /\ exc.v.type = "ConversionError"
                /\ Mentions(exc.v.msg, api.v.stderr))
          /\ (api.v.rc = 0 =>
                /\ exc.none
                /\ ~ret.none
                /\ (~api.v.output_path.none => ret = api.v.output_path)
                /\ (api.v.output_path.none =>
                      /\ ret.v.parent = "/tmp"
                      /\ ret.v.name[Len(ret.v.name)] = "wav"
                      /\ ret.v \notin SingleFiles
                      /\ calls[Len(calls) - 1] = Mkstemp(ret.v))
                /\ ret.v \in fs)
    /\ (converts = 1 /\ pc = "t_whisper") =>
          /\ exc.none
          /\ temp_wav = wav_path
          /\ wav_path.v.name[Len(wav_path.v.name)] = "wav"
          /\ wav_path.v \in fs
    /\ (converts = 1 /\ ~exc.none) => exc.v.type = "ConversionError"
    /\ converts = 1 => audio_path.v \in fs

C9_Witness ==
    /\ Ended("convert_to_whisper_format")
    /\ api.v.rc # 0 /\ api.v.stderr # ""
    /\ ~exc.none /\ exc.v.type = "ConversionError"
    /\ api.v.input_path \in fs

C9_WitnessTemp ==
    /\ Ended("convert_to_whisper_format")
    /\ api.v.rc = 0 /\ api.v.output_path.none
    /\ ret = Some(Path("/tmp", <<"tmp1", "wav">>))

\* C10: the output_file of the result of transcribe is the output path the
\* caller gave, and otherwise the input path with its extension replaced
\* by the extension of the requested output format.
C10_OutputFileOfResult ==
    ~pending.none =>
        LET out == pending.v.output_file
            inp == audio_path.v
            stem == IF Len(inp.name) > 1 THEN Len(inp.name) - 1 ELSE Len(inp.name)
        IN  /\ (~given_output.none => out = given_output.v)
            /\ (given_output.none =>
                  /\ out.parent = inp.parent
                  /\ Len(out.name) = stem + 1
                  /\ \A i \in 1..stem : out.name[i] = inp.name[i]
                  /\ out.name[stem + 1] = output_format)
            /\ (Ended("transcribe") =>
                  /\ ret = pending
                  /\ given_output = api.v.output_path
                  /\ inp = api.v.audio_path
                  /\ output_format = api.v.output_format)

C10_Witness ==
    /\ Ended("transcribe")
    /\ api.v.output_path.none
    /\ api.v.audio_path = Path("in2", <<"b", "x", "mp3">>)
    /\ api.v.output_format = "srt"
    /\ ~ret.none
    /\ ret.v.output_file = Path("in2", <<"b", "x", "srt">>)

C10_WitnessGiven ==
    /\ Ended("transcribe")
    /\ api.v.output_path = Some(Path("out", <<"t", "txt">>))
    /\ ~ret.none
    /\ ret.v.output_file = Path("out", <<"t", "txt">>)

\* the name of p without its last extension
Stem(p) == IF Len(p.name) > 1 THEN SubSeq(p.name, 1, Len(p.name) - 1) ELSE p.name

\* C11: in transcribe_batch every result's output_file lies directly in the
\* shared output directory, named by the input's base name and the output
\* format's extension, when a directory is given; otherwise it is the input
\* path with the extension replaced.
C11_BatchOutputPaths ==
    InCall("transcribe_batch") =>
        \A i \in 1..Len(results) :
            LET out == results[i].output_file
                inp == audio_paths[i]
            IN  /\ results[i].input_file = inp
                /\ out.name = Stem(inp) \o <<api.v.output_format>>
                /\ out.parent = IF api.v.output_dir.none THEN inp.parent
                                                         ELSE api.v.output_dir.v

C11_Witness ==
    /\ Ended("transcribe_batch")
    /\ api.v.output_dir = Some("out")
    /\ ~ret.none
    /\ Len(ret.v) = 2
    /\ ret.v[1].output_file = Path("out", <<"b", "x", "srt">>)
    /\ ret.v[2].output_file = Path("out", <<"a", "srt">>)

\* the process runs and unlinks of the log from position n + 1 on
StepsAfter(n) ==
    SelectSeq(SubSeq(calls, n + 1, Len(calls)), LAMBDA c : c.op # "mkstemp")

\* the external steps of one transcribe call on an incompatible file
IncompatibleSteps ==
    LET orig == PathStr(audio_path.v)
        tmp == "/tmp/tmp" \o ToString(tmp_n) \o ".wav"
        whisper == calls[Len(calls) - 1].argv
    IN  <<Run(<<"ffprobe", "-v", "quiet", "-print_format", "json", "-show_streams", orig>>),
          Run(<<"ffmpeg", "-y", "-i", orig, "-ar", "16000", "-ac", "1",
                "-c:a", "pcm_s16le", tmp>>),
          Run(<<WHISPER_BINARY, "-m", whisper[3], "-f", tmp>>
              \o SubSeq(whisper, 6, Len(whisper))),
          [op |-> "unlink", argv |-> <<tmp>>]>>

\* C15: for an incompatible input a transcribe call runs, in this order and
\* nothing else: ffprobe on the original file, ffmpeg once with -y, 16000,
\* 1 and pcm_s16le, whisper-cli on the converted file, the deletion of the
\* temporary file, and only then returns its result.
C15_StepsOfIncompatibleFile ==
    (InCall("transcribe") /\ compatible = Some(FALSE)) =>
        /\ (pc = "t_convert" =>
                StepsAfter(2) = <<Run(<<"ffprobe", "-v", "quiet", "-print_format",
                                        "json", "-show_streams", PathStr(audio_path.v)>>)>>)
        /\ (pc = "t_whisper" =>
                /\ Len(StepsAfter(2)) = 2
                /\ StepsAfter(2)[2].argv =
                     <<"ffmpeg", "-y", "-i", PathStr(audio_path.v), "-ar", "16000",
                       "-ac", "1", "-c:a", "pcm_s16le", PathStr(temp_wav.v)>>
                /\ ret.none)
        /\ (pc = "t_finally" =>
                /\ Len(StepsAfter(2)) = 3
                /\ StepsAfter(2)[3].argv[1] = WHISPER_BINARY
                /\ StepsAfter(2)[3].argv[5] = PathStr(temp_wav.v)
                /\ StepsAfter(2)[3].argv[5] # PathStr(audio_path.v)
                /\ temp_wav.v \in fs
                /\ ret.none)
        /\ ((pc = "done" /\ exc.none) =>
                /\ ~ret.none
                /\ StepsAfter(2) = IncompatibleSteps
                /\ temp_wav.v \notin fs)
        /\ ((pc = "done" /\ ~exc.none) => ret.none /\ Len(StepsAfter(2)) = 2)

C15_Witness ==
    /\ Ended("transcribe")
    /\ compatible = Some(FALSE)
    /\ ~ret.none
    /\ Len(StepsAfter(2)) = 4
    /\ StepsAfter(2)[4] = Unlink(temp_wav.v)

\* C17: whisper-cli is run with the Driver's model path, with the converted
\* file when a conversion happened and the original file otherwise, with
\* the output-format selector, with the output path stripped of its
\* extension as prefix, and with -l exactly when a language was given.
C17_WhisperCommandLine ==
    ~engine.none =>
        \E k \in 1..Len(calls) :
            LET argv == calls[k].argv
                out == output_path.v
                input == IF converts = 1 THEN temp_wav.v ELSE audio_path.v
            IN  /\ \A j \in (k + 1)..Len(calls) : calls[j].op = "unlink"
                /\ SubSeq(argv, 1, 8) =
                     <<"whisper-cli", "-m", PathStr(self.v.model_path),
                       "-f", PathStr(input), "-o" \o output_format, "-of",
                       out.parent \o "/" \o JoinDots(Stem(out))>>
                /\ (self.v.language.none => Len(argv) = 8)
                /\ (~self.v.language.none =>
                        /\ Len(argv) = 10
                        /\ argv[9] = "-l"
                        /\ argv[10] = self.v.language.v)

C17_Witness ==
    /\ pc = "t_finally"
    /\ converts = 1
    /\ self.v.language = Some("en")
    /\ calls[Len(calls)].argv[5] = "/tmp/tmp1.wav"
    /\ calls[Len(calls)].argv[10] = "en"

\* the streams array ffprobe printed, every entry a dict with a codec_type
ProbedStreams ==
    IF /\ ~probe.none
       /\ probe.v.kind = "exit"
       /\ probe.v.rc = 0
       /\ probe.v.stdout.t = "obj"
       /\ "streams" \in DOMAIN probe.v.stdout.o
       /\ probe.v.stdout.o.streams.t = "arr"
       /\ \A i \in 1..Len(probe.v.stdout.o.streams.a) :
              /\ probe.v.stdout.o.streams.a[i].t = "obj"
              /\ "codec_type" \in DOMAIN probe.v.stdout.o.streams.a[i].o
    THEN Some(probe.v.stdout.o.streams.a)
    ELSE None

IsAudio(st) == st.o.codec_type = JStr(<<"audio">>)

\* a stream that is 16 kHz mono PCM 16-bit
IsRequiredStream(st) ==
    /\ {"codec_name", "sample_rate", "channels"} \subseteq DOMAIN st.o
    /\ st.o.codec_name \in {JStr(<<"pcm_s16le">>), JStr(<<"pcm_s16be">>)}
    /\ st.o.sample_rate = JStr(<<"1", "6", "0", "0", "0">>)
    /\ st.o.channels = JNum(1)

\* C18: the prober decides on the first audio stream ffprobe reports: a
\* file whose first audio stream is 16 kHz mono PCM 16-bit is compatible
\* whatever non-audio streams precede it, one without audio stream is not.
C18_DecisionOnFirstAudioStream ==
    ~ProbedStreams.none =>
        LET a == ProbedStreams.v
            audio == {i \in 1..Len(a) : IsAudio(a[i])}
        IN  /\ (audio = {} => compatible = Some(FALSE))
            /\ \A i \in audio :
                  ((\A j \in audio : i <= j) /\ IsRequiredStream(a[i]))
                      => compatible = Some(TRUE)

\* the ffprobe runs of the log, in order
ProbeRuns == SelectSeq(calls, LAMBDA c : c.op = "run" /\ c.argv[1] = "ffprobe")

\* the files of the batch are probed in list order, none twice, and a probe
\* begins only with no temporary file left and a fresh frame
BatchStepsInOrder ==
    InCall("transcribe_batch") =>
        /\ Len(ProbeRuns) <= Len(audio_paths)
        /\ \A k \in 1..Len(ProbeRuns) : ProbeRuns[k].argv[7] = PathStr(audio_paths[k])
        /\ (pc = "t_probe" =>
                /\ Len(ProbeRuns) = idx
                /\ \A n \in 1..tmp_n : TempPath(n) \notin fs
                /\ temp_wav.none /\ converts = 0 /\ engine.none /\ pending.none
                /\ audio_path = Some(audio_paths[idx + 1]))

\* C16: transcribe_batch attempts the files strictly in list order, once
\* each; the external calls and the temp-file deletion of file i are done
\* before the probe of file i+1 begins, and only the index is carried over.
C16_BatchInOrderOnceEach ==
    /\ BatchStepsInOrder
    /\ (Ended("transcribe_batch") => Len(ProbeRuns) = Len(audio_paths))

\* the extensions of config.py without the dot, as the claim names them
SupportedNames == {"wav", "mp3", "m4a", "flac", "ogg", "aac", "wma", "opus"}

\* the extension of a path lower-cased, spelled out independently of lower
LowerName(e) ==
    CASE e \in {"wav", "Wav", "WAV"} -> "wav"
      [] e \in {"mp3", "MP3"} -> "mp3"
      [] e \in {"m4a", "M4A"} -> "m4a"
      [] e \in {"flac", "FLAC"} -> "flac"
      [] e \in {"ogg", "Ogg"} -> "ogg"
      [] e \in {"aac", "AAC"} -> "aac"
      [] e \in {"wma", "WmA"} -> "wma"
      [] e \in {"opus", "OPUS"} -> "opus"
      [] e \in {"txt", "TXT"} -> "txt"
      [] OTHER -> e

HasSupportedExtension(p) ==
    Len(p.name) > 1 /\ LowerName(p.name[Len(p.name)]) \in SupportedNames

\* C14 as stated: detect_format returns the lower-cased extension without
\* its dot for a supported extension in any letter case, and "unknown" for
\* an unsupported extension.
C14_DetectFormatUnknown ==
    Ended("detect_format") =>
        LET p == api.v.file_path
        IN  ret.v = IF HasSupportedExtension(p)
                    THEN Some(LowerName(p.name[Len(p.name)]))
                    ELSE Some("unknown")

\* C14, amended: detect_format returns the lower-cased extension without
\* its dot for a supported extension in any letter case, and None for an
\* unsupported extension.
C14_DetectFormat ==
    Ended("detect_format") =>
        LET p == api.v.file_path
        IN  ret.v = IF HasSupportedExtension(p)
                    THEN Some(LowerName(p.name[Len(p.name)]))
                    ELSE None

C14_Witness ==
    /\ Ended("detect_format")
    /\ api.v.file_path = Path("in", <<"test", "OPUS">>)
    /\ ret = Some(Some("opus"))

C14_WitnessUnsupported ==
    /\ Ended("detect_format")
    /\ api.v.file_path = Path("in", <<"test", "xyz">>)
    /\ ret = Some(None)

\* number of positions of the sequence s that hold x
Count(s, x) == Cardinality({i \in 1..Len(s) : s[i] = x})

\* C13: resolve_input_files returns every existing supported audio file
\* named in its arguments exactly once, returns no argument path that does
\* not exist, prints one warning for each missing argument and for nothing
\* else, and a missing path raises nothing.
C13_ResolveInputFiles ==
    Ended("resolve_input_files") =>
        LET args == api.v.input_args
            missing(p) == p \notin fs /\ p \notin dirs
        IN  /\ exc.none
            /\ ~ret.none
            /\ \A i \in 1..Len(args) :
                  /\ (args[i] \in fs /\ HasSupportedExtension(args[i]))
                        => Count(ret.v, args[i]) = 1
                  /\ missing(args[i]) => Count(ret.v, args[i]) = 0
                  /\ Count(warnings, args[i]) =
                        IF missing(args[i]) THEN Count(args, args[i]) ELSE 0
            /\ \A k \in 1..Len(warnings) : Count(args, warnings[k]) > 0

C13_Witness ==
    /\ Ended("resolve_input_files")
    /\ api.v.input_args = <<Path("in", <<"a", "wav">>), Path("in", <<"missing", "mp3">>)>>
    /\ ret = Some(<<Path("in", <<"a", "wav">>)>>)
    /\ warnings = <<Path("in", <<"missing", "mp3">>)>>

C13_WitnessDuplicate ==
    /\ Ended("resolve_input_files")
    /\ api.v.input_args = <<Path("in2", <<"C", "MP3">>), Path("in2", <<"C", "MP3">>)>>
    /\ ret = Some(<<Path("in2", <<"C", "MP3">>)>>)
    /\ warnings = <<>>

\* main returns 0 exactly when some input file was resolved and every
\* result of the run has success = TRUE, and 1 whenever it returns otherwise
ExitCodeOfResults ==
    (InCall("main") /\ ~exit_code.none) =>
        LET rs == IF ret.none THEN <<>> ELSE IF in_batch THEN ret.v ELSE <<ret.v>>
        IN  /\ pc = "done"
            /\ exit_code.v \in {0, 1}
            /\ exit_code.v = 0 <=>
                  /\ input_files # <<>>
                  /\ Len(rs) = Len(input_files)
                  /\ \A i \in 1..Len(rs) : rs[i].success

\* C12: in transcription mode main returns 0 if and only if at least one
\* input file was resolved and every file of the run produced a result
\* with success = TRUE; otherwise it returns 1.
C12_ExitCode ==
    /\ ExitCodeOfResults
    /\ (Ended("main") /\ api.v.input # <<>>) => (exc.none /\ ~exit_code.none)

\* the construction of the Transcriber in main has raised DependencyError
DependencyRaised ==
    /\ InCall("main")
    /\ pc \notin {"m_start", "m_construct"}
    /\ calls # <<>>
    /\ self.none

\* C19: when the construction of the Transcriber raises DependencyError in
\* main, main returns 1 at once: no input file is probed, converted or
\* transcribed in that run.
C19_DependencyErrorExits ==
    DependencyRaised =>
        /\ pc = "done"
        /\ exit_code = Some(1)
        /\ exc.none
        /\ \A i \in 1..Len(calls) : calls[i].argv[1] = "which"
        /\ audio_path.none /\ probe.none /\ engine.none
        /\ converts = 0 /\ tmp_n = 0 /\ results = <<>> /\ ret.none

C19_Witness ==
    /\ DependencyRaised
    /\ exit_code = Some(1)
    /\ input_files = <<Path("in", <<"a", "mp3">>), Path("in", <<"a", "wav">>)>>
    /\ env.whisper /\ env.ffmpeg
    /\ Len(calls) = 2

\* the step of main that decides on the output
OutputDecided == pc = "m_start" /\ pc' = "m_construct" /\ ~api'.v.output.none

\* C20: a given -o value is taken as output directory, created if missing,
\* and the batch path is used, if and only if it ends with a separator or
\* is an existing directory or more than one input file was resolved;
\* otherwise it is the output file of a single transcribe call.  Single-file
\* mode is used exactly when one file was resolved and no directory set.
C20_OutputDirectoryDecision ==
    [][/\ OutputDecided =>
            LET o == api'.v.output.v
                p == Path(o.parent, IF o.trail = "\\" THEN <<"out\\">> ELSE o.name)
                asDir == \/ o.trail # ""
                         \/ p \in dirs
                         \/ Len(input_files') > 1
            IN  /\ asDir => /\ main_output_dir' = Some(p)
                            /\ main_output_file'.none
                            /\ p \in dirs'
                /\ ~asDir => /\ main_output_file' = Some(p)
                             /\ main_output_dir'.none
                             /\ dirs' = dirs
       /\ (pc = "m_run" /\ (Len(input_files) = 1 /\ main_output_dir.none)) =>
            /\ ~in_batch'
            /\ pc' = "t_probe"
            /\ audio_path' = Some(input_files[1])
            /\ given_output' = main_output_file
       /\ (pc = "m_run" /\ ~(Len(input_files) = 1 /\ main_output_dir.none)) =>
            /\ in_batch'
            /\ pc' = "b_loop"
            /\ audio_paths' = input_files
            /\ output_dir.none' = main_output_dir.none
            /\ ~main_output_dir.none =>
                  output_dir'.v = IF main_output_dir.v.parent = "."
                                  THEN main_output_dir.v.name[1]
                                  ELSE "out/t.txt"
      ]_vars

C20_Witness ==
    /\ InCall("main")
    /\ api.v.output = Some(OutputValue(".", <<"out">>, ""))
    /\ Len(input_files) = 1
    /\ main_output_dir = Some(OutTarget)
    /\ in_batch
    /\ results # <<>>

C20_WitnessFile ==
    /\ InCall("main")
    /\ api.v.output = Some(OutputValue(".", <<"out">>, ""))
    /\ main_output_file = Some(OutTarget)
    /\ ~in_batch
    /\ pc = "done"
    /\ exit_code = Some(0)

\* the temporary files allocated so far that still exist
TempFilesLeft == {n \in 1..tmp_n : TempPath(n) \in fs}

\* C22: once a transcribe call has finished, by a return or by the
\* ConversionError of the converter, no temporary file allocated during
\* the call exists any more.
C22_NoTempFileOutlivesCall ==
    Ended("transcribe") => TempFilesLeft = {}

\* the whisper-cli run of the current transcribe call
EngineRun ==
    LET runs == SelectSeq(calls, LAMBDA c : c.op = "run" /\ c.argv[1] = WHISPER_BINARY)
    IN  runs[Len(runs)]

\* C23: for a successful transcribe call the output_file of the result is
\* the path the speech engine writes: the -of prefix it was given followed
\* by the extension of the requested format.
C23_OutputFileIsWrittenFile ==
    (~pending.none /\ pending.v.success) =>
        /\ PathStr(pending.v.output_file) = EngineRun.argv[8] \o "." \o output_format
        /\ pending.v.output_file \in fs

\* C24: within one transcribe_batch call no two distinct input files get
\* the same output path.
C24_BatchOutputPathsDistinct ==
    InCall("transcribe_batch") =>
        \A i, j \in 1..Len(results) :
            audio_paths[i] # audio_paths[j]
                => results[i].output_file # results[j].output_file

\* C25: main always ends by returning 0 or 1, never by an uncaught
\* exception; when the conversion of an input file fails it still returns
\* 1, in single-file mode and in batch mode.
C25_MainAlwaysReturns ==
    (Ended("main") /\ api.v.input # <<>>) =>
        /\ exc.none
        /\ exit_code \in {Some(0), Some(1)}

\* position of a path in the order of sorted
Rank(p) == CHOOSE k \in 1..Len(SortOrder) : SortOrder[k] = p

\* C26: resolve_input_files returns a regular file lying directly in a
\* named directory if and only if its extension, compared without regard
\* to case, is supported, as for a file named directly; every returned
\* path is an existing regular file; the list is sorted and has no
\* duplicates.
C26_SameRuleForDirectories ==
    Ended("resolve_input_files") =>
        LET args == api.v.input_args
            named == {args[i] : i \in 1..Len(args)}
            returned == {ret.v[k] : k \in 1..Len(ret.v)}
        IN  /\ \A d \in named \cap dirs :
                  \A f \in fs :
                      f.parent = JoinDots(d.name) =>
                          (f \in returned <=> HasSupportedExtension(f))
            /\ returned \subseteq fs
            /\ \A i, j \in 1..Len(ret.v) : i < j => Rank(ret.v[i]) < Rank(ret.v[j])

\* the step that is a call of download_model
DownloadStep == pc = "m_start" /\ ~api'.none /\ api'.v.fn = "download_model"

\* C21: download_model returns TRUE without running curl when the file
\* ggml-<model>.bin exists in the model directory; when curl exits non-zero
\* it returns FALSE and no file is left at the destination, so that the
\* construction of a Transcriber for that model then fails.
C21_DownloadModel ==
    [][DownloadStep =>
          LET model == api'.v.model
              dest == Path("~/.cache/whisper", <<"ggml-" \o model, "bin">>)
              curl == SelectSeq(calls', LAMBDA c : c.argv[1] = "curl")
          IN  /\ dest \in fs =>
                    /\ ret' = Some(TRUE)
                    /\ curl = <<>>
                    /\ exc'.none
              /\ (curl # <<>> /\ api'.v.curl.kind = "exit" /\ api'.v.curl.rc # 0) =>
                    /\ ret' = Some(FALSE)
                    /\ exc'.none
                    /\ dest \notin fs'
                    /\ ~_verify_dependencies([whisper |-> TRUE, ffmpeg |-> TRUE],
                                             fs', dest, model).none
      ]_vars

C21_Witness ==
    /\ Ended("download_model")
    /\ api.v.model = "medium"
    /\ api.v.curl = [kind |-> "exit", rc |-> 18, wrote |-> TRUE]
    /\ calls # <<>>
    /\ ret = Some(FALSE)
    /\ _default_model_path("medium") \notin fs

C21_WitnessExists ==
    /\ Ended("download_model")
    /\ api.v.model = "medium"
    /\ calls = <<>>
    /\ ret = Some(TRUE)
    /\ _default_model_path("medium") \in fs

====
